---- MODULE Spec2Model ----
(***************************************************************************)
(* Model of license_plate_parser.py: the normalizer (extract_region_code,  *)
(* parse_datetime), the three text strategies and their selection in       *)
(* extract_comments_from_page, the persister loop of save_comments_to_db   *)
(* and the crawl loop of run_parser with the end-of-run summary.           *)
(*                                                                         *)
(* A Python str is a sequence of one-character strings.  The two non-ASCII *)
(* delimiter characters of strategy 1 are written MIDDLE_DOT and BULLET.   *)
(***************************************************************************)
EXTENDS Integers, Sequences, FiniteSets, TLC

VARIABLES
    pc,               \* position in main()/run_parser
    start_page,       \* run_parser argument
    end_page,         \* run_parser argument
    page_num,         \* loop variable of run_parser (start_page - 1 before the first iteration)
    page_content,     \* text returned by fetch_page for the current page
    comments,         \* list returned by extract_comments_from_page / iterated by save_comments_to_db
    idx,              \* number of comments of the batch already iterated by save_comments_to_db
    saved_count,      \* local saved_count of save_comments_to_db / run_parser
    processed_pages,  \* self.processed_pages
    total_records,    \* self.total_records
    error_count,      \* self.error_count
    reports,          \* number of rows INSERTed into table reports (autocommit)
    exit_code,        \* exit status of the process (-1 while running)
    log,              \* kind of the last message given to logger
    failed_inserts,   \* history: indices of the current batch whose INSERT raised
    errors_before_save, \* history: error_count when save_comments_to_db was entered
    fetch_failed,     \* history: pages whose fetch raised RequestException
    processed,        \* history: pages that reached the update of the counters
    interrupted,      \* history: page during which KeyboardInterrupt was raised, else 0
    plate_number,     \* argument of extract_region_code
    region_code,      \* its result
    text_content,     \* argument of the parsing strategies
    raising,          \* strategies that raise on text_content
    extracted         \* result of the strategy loop on text_content

vars == <<pc, start_page, end_page, page_num, page_content, comments, idx,
          saved_count, processed_pages, total_records, error_count, reports,
          exit_code, log, failed_inserts, errors_before_save, fetch_failed,
          processed, interrupted, plate_number, region_code, text_content,
          raising, extracted>>

-----------------------------------------------------------------------------
(* Characters and Python str helpers                                       *)

MIDDLE_DOT == "MIDDLE_DOT"
BULLET == "BULLET"
\* Markup is kept as whole tokens.  In text_content (the output of get_text)
\* only markup that was escaped in the page survives, as TAG_P and TAG_P_END;
\* TAG_DIV and TAG_DIV_END are the page's own markup, which get_text removes.
TAG_P == "<p>"
TAG_P_END == "</p>"
ESC_P == "&lt;p&gt;"
ESC_P_END == "&lt;/p&gt;"
TAG_DIV == "<div>"
TAG_DIV_END == "</div>"

\* [A-Z]
UpperLetters == {"A", "B", "C", "D", "E", "F", "G", "H", "I", "J", "K", "L", "M",
                 "N", "O", "P", "Q", "R", "S", "T", "U", "V", "W", "X", "Y", "Z"}
\* str.upper() on the ASCII lower-case letters
Lower2Upper ==
    ("a" :> "A") @@ ("b" :> "B") @@ ("c" :> "C") @@ ("d" :> "D") @@ ("e" :> "E") @@ ("f" :> "F")
    @@ ("g" :> "G") @@ ("h" :> "H") @@ ("i" :> "I") @@ ("j" :> "J") @@ ("k" :> "K") @@ ("l" :> "L")
    @@ ("m" :> "M") @@ ("n" :> "N") @@ ("o" :> "O") @@ ("p" :> "P") @@ ("q" :> "Q") @@ ("r" :> "R")
    @@ ("s" :> "S") @@ ("t" :> "T") @@ ("u" :> "U") @@ ("v" :> "V") @@ ("w" :> "W") @@ ("x" :> "X")
    @@ ("y" :> "Y") @@ ("z" :> "Z")
\* \d
Digits == {"0", "1", "2", "3", "4", "5", "6", "7", "8", "9"}
DigitVal == ("0" :> 0) @@ ("1" :> 1) @@ ("2" :> 2) @@ ("3" :> 3) @@ ("4" :> 4)
            @@ ("5" :> 5) @@ ("6" :> 6) @@ ("7" :> 7) @@ ("8" :> 8) @@ ("9" :> 9)
\* \s and the characters str.strip()/str.split() treat as whitespace
Whitespace == {" ", "\t", "\n"}

\* F applied to the value e: a local name for a value that is used several times
Bind(e, F(_)) == F(e)

Min(a, b) == IF a < b THEN a ELSE b
\* least element of a non-empty set of integers
Least(S) == CHOOSE x \in S : \A y \in S : x <= y

\* s[:n]
Take(s, n) == SubSeq(s, 1, Min(n, Len(s)))
\* s[n:]  (n is the 0-based Python index)
Drop(s, n) == SubSeq(s, n + 1, Len(s))
\* s[a:b]  (0-based, b exclusive, clipped as Python clips)
Slice(s, a, b) == SubSeq(s, a + 1, Min(b, Len(s)))

\* number of consecutive characters of class cls starting at 1-based position i
RECURSIVE Run(_, _, _)
Run(s, i, cls) ==
    IF i <= Len(s) /\ s[i] \in cls THEN 1 + Run(s, i + 1, cls) ELSE 0

\* number of consecutive characters of class cls ending at 1-based position i
RECURSIVE RunBack(_, _, _)
RunBack(s, i, cls) ==
    IF i >= 1 /\ s[i] \in cls THEN 1 + RunBack(s, i - 1, cls) ELSE 0

\* str.strip()
Strip(s) ==
    LET a == Run(s, 1, Whitespace)
        b == RunBack(s, Len(s), Whitespace)
    IN  IF a = Len(s) THEN << >> ELSE SubSeq(s, a + 1, Len(s) - b)

\* str.upper()
Upper(s) ==
    [i \in 1..Len(s) |-> IF s[i] \in DOMAIN Lower2Upper THEN Lower2Upper[s[i]] ELSE s[i]]

\* re.sub(r'\s+', ' ', s)
RECURSIVE ReSubWs(_)
ReSubWs(s) ==
    IF s = << >> THEN << >>
    ELSE IF s[1] \in Whitespace
         THEN <<" ">> \o ReSubWs(Drop(s, Run(s, 1, Whitespace)))
         ELSE <<s[1]>> \o ReSubWs(Tail(s))

-----------------------------------------------------------------------------
(* extract_region_code                                                     *)

UNK == <<"U", "N", "K">>

\* [A-Z]{2,3} at the start of s, greedy with backtracking: the candidate
\* lengths in the order the regex engine tries them
\* Faulty variant of LetterCounts: the quantifier written {2} instead of {2,3}
LetterCountsTwoOnly(s) ==
    IF Run(s, 1, UpperLetters) >= 2 THEN <<2>> ELSE << >>

LetterCounts(s) ==
    LET n == Run(s, 1, UpperLetters)
    IN  IF n >= 3 THEN <<3, 2>> ELSE IF n = 2 THEN <<2>> ELSE << >>

\* first candidate length for which the rest of the pattern matches; 0: no match
FirstCount(cands, rest(_)) ==
    LET ok == {i \in 1..Len(cands) : rest(cands[i])}
    IN  IF ok = {} THEN 0 ELSE cands[CHOOSE i \in ok : \A j \in ok : i <= j]

\* r'^([A-Z]{2,3})\s+\d' : length of group 1, 0 when there is no match
Pattern1(s) ==
    LET rest(n) == LET w == Run(s, n + 1, Whitespace)
                   IN  w >= 1 /\ n + w + 1 <= Len(s) /\ s[n + w + 1] \in Digits
    IN  FirstCount(LetterCounts(s), rest)

\* r'^([A-Z]{2,3})\d'
Pattern2(s) ==
    LET rest(n) == n + 1 <= Len(s) /\ s[n + 1] \in Digits
    IN  FirstCount(LetterCounts(s), rest)

\* r'^([A-Z]{2,3})'
Pattern3(s) ==
    LET rest(n) == TRUE
    IN  FirstCount(LetterCounts(s), rest)

extract_region_code(plate) ==
    Bind(ReSubWs(Upper(Strip(plate))), LAMBDA plate_clean :
    Bind(Pattern1(plate_clean), LAMBDA m1 :
    Bind(Pattern2(plate_clean), LAMBDA m2 :
    Bind(Pattern3(plate_clean), LAMBDA m3 :
    Bind(Take(plate_clean, Run(plate_clean, 1, UpperLetters)), LAMBDA letters :
        IF m1 > 0 THEN Take(plate_clean, m1)
        ELSE IF m2 > 0 THEN Take(plate_clean, m2)
        ELSE IF m3 > 0 THEN Take(plate_clean, m3)
        ELSE IF Len(letters) > 0
             THEN (IF Len(letters) >= 3 THEN Take(letters, 3) ELSE Take(letters, 2))
             ELSE UNK)))))

-----------------------------------------------------------------------------
(* parse_datetime: datetime.strptime over the ordered list of formats      *)

\* Python's None, and a value no list of comments/datetime equals
None == << >>

\* the formats of date_formats, in order, as lists of directives and literals
date_formats ==
    << <<"%Y", "-", "%m", "-", "%d", " ", "%H", ":", "%M", ":", "%S">>,
       <<"%d", ".", "%m", ".", "%Y", " ", "%H", ":", "%M", ":", "%S">>,
       <<"%d", "-", "%m", "-", "%Y", " ", "%H", ":", "%M", ":", "%S">>,
       <<"%Y", "-", "%m", "-", "%d">>,
       <<"%d", ".", "%m", ".", "%Y">>,
       <<"%d", "-", "%m", "-", "%Y">>,
       <<"%d", "/", "%m", "/", "%Y", " ", "%H", ":", "%M", ":", "%S">>,
       <<"%d", "/", "%m", "/", "%Y">> >>

Directives == {"%Y", "%m", "%d", "%H", "%M", "%S"}

\* value of the n digits of s starting at 1-based position i; -1 if they are not n digits
RECURSIVE Num(_, _, _)
Num(s, i, n) ==
    IF n = 0 THEN 0
    ELSE IF i + n - 1 > Len(s) \/ s[i + n - 1] \notin Digits THEN -1
    ELSE Bind(Num(s, i, n - 1), LAMBDA hi :
             IF hi < 0 THEN -1 ELSE 10 * hi + DigitVal[s[i + n - 1]])

\* The alternatives of a directive's regex (_strptime.TimeRE), in the order the
\* regex engine tries them, each as [len, val] for the text at position i of s.
DirectiveAlts(dv, s, i) ==
    LET two == Num(s, i, 2)
        one == Num(s, i, 1)
        alt(n, v, ok) == IF ok THEN << [len |-> n, val |-> v] >> ELSE << >>
    IN  CASE dv = "%Y" -> alt(4, Num(s, i, 4), Num(s, i, 4) >= 0)
          [] dv = "%m" -> alt(2, two, two >= 1 /\ two <= 12) \o alt(1, one, one >= 1)
          [] dv = "%d" -> alt(2, two, two >= 1 /\ two <= 31) \o alt(1, one, one >= 1)
                          \o alt(2, Num(s, i + 1, 1),
                                 i <= Len(s) /\ s[i] = " " /\ Num(s, i + 1, 1) >= 1)
          [] dv = "%H" -> alt(2, two, two >= 0 /\ two <= 23) \o alt(1, one, one >= 0)
          [] dv = "%M" -> alt(2, two, two >= 0 /\ two <= 59) \o alt(1, one, one >= 0)
          [] dv = "%S" -> alt(2, two, two >= 0 /\ two <= 61) \o alt(1, one, one >= 0)

\* format_regex.match(data_string): the first match of tokens k.. of fmt at
\* position i of s, as << [end, fields] >>, or << >> when there is none.
\* A blank in the format is \s+; any other literal matches itself.
RECURSIVE ReMatchFormat(_, _, _, _)
RECURSIVE TryAlts(_, _, _, _, _, _)
ReMatchFormat(fmt, k, s, i) ==
    IF k > Len(fmt) THEN << [end |-> i - 1, fields |-> << >>] >>
    ELSE IF fmt[k] \in Directives
         THEN TryAlts(fmt, k, s, i, DirectiveAlts(fmt[k], s, i), 1)
    ELSE IF fmt[k] = " "
         THEN LET w == Run(s, i, Whitespace)
              IN  IF w >= 1 THEN ReMatchFormat(fmt, k + 1, s, i + w) ELSE << >>
    ELSE IF i <= Len(s) /\ s[i] = fmt[k]
         THEN ReMatchFormat(fmt, k + 1, s, i + 1)
         ELSE << >>
TryAlts(fmt, k, s, i, alts, a) ==
    IF a > Len(alts) THEN << >>
    ELSE Bind(ReMatchFormat(fmt, k + 1, s, i + alts[a].len), LAMBDA r :
             IF r # << >>
             THEN << [end |-> r[1].end,
                      fields |-> << <<fmt[k], alts[a].val>> >> \o r[1].fields] >>
             ELSE TryAlts(fmt, k, s, i, alts, a + 1))

\* value of directive dv among the matched fields, or dflt
Field(fields, dv, dflt) ==
    LET hit == {j \in 1..Len(fields) : fields[j][1] = dv}
    IN  IF hit = {} THEN dflt ELSE fields[CHOOSE j \in hit : TRUE][2]

IsLeap(y) == (y % 4 = 0 /\ y % 100 # 0) \/ y % 400 = 0
DaysInMonth(y, m) ==
    IF m = 2 THEN (IF IsLeap(y) THEN 29 ELSE 28)
    ELSE IF m \in {4, 6, 9, 11} THEN 30 ELSE 31

\* the exception strptime raises, as a value no datetime equals
ValueError == <<"ValueError">>

\* datetime.strptime(date_str, fmt): the datetime <<Y, m, d, H, M, S>>, or
\* ValueError (no match, unconverted data, or a field datetime() rejects)
strptime(date_str, fmt) ==
    Bind(ReMatchFormat(fmt, 1, date_str, 1), LAMBDA found :
        IF found = << >> \/ found[1].end # Len(date_str) THEN ValueError
        ELSE Bind(found[1].fields, LAMBDA f :
             Bind(Field(f, "%Y", 1900), LAMBDA y :
             Bind(Field(f, "%m", 1), LAMBDA m :
             Bind(Field(f, "%d", 1), LAMBDA d :
             Bind(Field(f, "%S", 0), LAMBDA ss :
                 IF y < 1 \/ d > DaysInMonth(y, m) \/ ss > 59 THEN ValueError
                 ELSE <<y, m, d, Field(f, "%H", 0), Field(f, "%M", 0), ss>>))))))

RECURSIVE TryFormats(_, _)
TryFormats(date_str, k) ==
    IF k > Len(date_formats) THEN None
    ELSE Bind(strptime(date_str, date_formats[k]), LAMBDA r :
             IF r # ValueError THEN r ELSE TryFormats(date_str, k + 1))

parse_datetime(date_str) == TryFormats(Strip(date_str), 1)

-----------------------------------------------------------------------------
(* Regular expressions of the parsing strategies                           *)

AuthorMax == 255
CommentMax == 1000
DateWindow == 200
CommentWindow == 500
FragmentCap == 50

Anonymous == <<"A", "n", "o", "n", "y", "m", "o", "u", "s">>

\* r'[A-Z]{lo,hi}\s*\d{1,5}[A-Z]*' at 1-based position i of s: the position of
\* the last matched character, 0 when there is no match.  The letters are
\* followed by \s*\d, so the engine's backtracking to fewer letters never
\* matches: the whole run of letters must have lo..hi letters.
PlateMatchEnd(s, i, lo, hi) ==
    Bind(Run(s, i, UpperLetters), LAMBDA r :
    Bind(Run(s, i + r, Whitespace), LAMBDA w :
    Bind(Run(s, i + r + w, Digits), LAMBDA d :
    Bind(Min(d, 5), LAMBDA dd :
    Bind(Run(s, i + r + w + dd, UpperLetters), LAMBDA l :
        IF r >= lo /\ r <= hi /\ d >= 1 THEN i + r + w + dd + l - 1 ELSE 0)))))

\* r'\d{4}-\d{2}-\d{2}\s+\d{2}:\d{2}:\d{2}' at position i of s: position of the
\* last matched character, 0 when there is no match
DateMatchEnd(s, i) ==
    Bind(Run(s, i + 10, Whitespace), LAMBDA w :
    Bind(i + 10 + w, LAMBDA t :
        LET lit(k, c) == k <= Len(s) /\ s[k] = c
        IN  IF /\ Num(s, i, 4) >= 0 /\ lit(i + 4, "-")
               /\ Num(s, i + 5, 2) >= 0 /\ lit(i + 7, "-")
               /\ Num(s, i + 8, 2) >= 0 /\ w >= 1
               /\ Num(s, t, 2) >= 0 /\ lit(t + 2, ":")
               /\ Num(s, t + 3, 2) >= 0 /\ lit(t + 5, ":")
               /\ Num(s, t + 6, 2) >= 0
            THEN t + 7 ELSE 0))

\* re.search for the date pattern: the first position >= i where it matches, 0 if none
SearchDate(s, i) ==
    Bind({k \in i..Len(s) : DateMatchEnd(s, k) > 0}, LAMBDA hits :
        IF hits = {} THEN 0 ELSE Least(hits))

\* re.search for r'[A-Z]{2,3}\s*\d{1,5}[A-Z]*' from position i on, 0 if none
SearchPlate(s, i) ==
    Bind({k \in i..Len(s) : PlateMatchEnd(s, k, 2, 3) > 0}, LAMBDA hits :
        IF hits = {} THEN 0 ELSE Least(hits))

\* position of the first "\n" of s at or after position i, Len(s) + 1 if none
LineEnd(s, i) ==
    LET hits == {k \in i..Len(s) : s[k] = "\n"}
    IN  IF hits = {} THEN Len(s) + 1 ELSE Least(hits)

\* str.split(' ', maxsplit)
RECURSIVE SplitSpace(_, _)
SplitSpace(s, maxsplit) ==
    Bind({k \in 1..Len(s) : s[k] = " "}, LAMBDA sp :
        IF maxsplit = 0 \/ sp = {} THEN <<s>>
        ELSE Bind(Least(sp), LAMBDA k :
                 <<SubSeq(s, 1, k - 1)>> \o SplitSpace(Drop(s, k), maxsplit - 1)))

\* str.split(): the maximal runs of non-whitespace characters
RECURSIVE SplitWords(_)
SplitWords(s) ==
    Bind(Drop(s, Run(s, 1, Whitespace)), LAMBDA rest :
    Bind({k \in 1..Len(rest) : rest[k] \in Whitespace}, LAMBDA ws :
    Bind(IF ws = {} THEN Len(rest) ELSE Least(ws) - 1, LAMBDA n :
        IF rest = << >> THEN << >>
        ELSE <<Take(rest, n)>> \o SplitWords(Drop(rest, n)))))

\* ' '.join(parts)
RECURSIVE Join(_)
Join(parts) ==
    IF parts = << >> THEN << >>
    ELSE IF Len(parts) = 1 THEN parts[1]
    ELSE parts[1] \o <<" ">> \o Join(Tail(parts))

-----------------------------------------------------------------------------
(* _parse_strategy_1                                                       *)

\* The whole pattern of strategy 1 at position i: << [plate, date_str, rest,
\* end] >> (the three groups and the position of the last matched character),
\* << >> when there is no match.
Strategy1MatchAt(s, i) ==
    Bind(PlateMatchEnd(s, i, 1, 4), LAMBDA pe :
    Bind(pe + 1 + Run(s, pe + 1, Whitespace), LAMBDA dot :
    Bind(dot + 1 + Run(s, dot + 1, Whitespace), LAMBDA ds :
    Bind(DateMatchEnd(s, ds), LAMBDA de :
    Bind(Run(s, de + 1, Whitespace), LAMBDA w :
    \* \s* is greedy and gives characters back until ([^\n]+?) can start
    Bind({k \in 0..w : de + 1 + k <= Len(s) /\ s[de + 1 + k] # "\n"}, LAMBDA ks :
        IF pe = 0 \/ dot > Len(s) \/ s[dot] \notin {MIDDLE_DOT, BULLET}
           \/ de = 0 \/ ks = {}
        THEN << >>
        ELSE Bind(de + 1 + (CHOOSE x \in ks : \A y \in ks : x >= y), LAMBDA g3 :
             Bind(LineEnd(s, g3) - 1, LAMBDA g3e :
                 << [plate |-> SubSeq(s, i, pe), date_str |-> SubSeq(s, ds, de),
                     rest |-> SubSeq(s, g3, g3e), end |-> g3e] >>))))))))

\* re.finditer from position i on: the next match is the leftmost one, and the
\* scan resumes after its last character.  Each match gives the candidate
\* [plate, date_str, trail]: the stripped groups 1 and 2, and group 3.
RECURSIVE Strategy1From(_, _)
Strategy1From(s, i) ==
    Bind({k \in i..Len(s) : Strategy1MatchAt(s, k) # << >>}, LAMBDA hits :
        IF hits = {} THEN << >>
        ELSE Bind(Strategy1MatchAt(s, Least(hits))[1], LAMBDA m :
                 << [plate |-> Strip(m.plate), date_str |-> Strip(m.date_str),
                     trail |-> m.rest] >> \o Strategy1From(s, m.end + 1)))

Strategy1Candidates(text) == Strategy1From(text, 1)

\* the body of the loop of strategy 1 for one match: the record it appends,
\* << >> when the date does not parse
Strategy1Record(c) ==
    Bind(Strip(c.trail), LAMBDA comment_text :
    Bind(SplitSpace(comment_text, 3), LAMBDA parts :
    Bind(IF parts # << >> THEN parts[1] ELSE Anonymous, LAMBDA author :
    Bind(IF Len(parts) > 1 THEN Join(Tail(parts)) ELSE comment_text, LAMBDA comment_clean :
    Bind(parse_datetime(c.date_str), LAMBDA parsed_date :
        IF parsed_date # None
        THEN << [plate |-> c.plate, date |-> parsed_date,
                 author |-> Take(author, AuthorMax),
                 comment |-> IF comment_clean # << >> THEN Take(comment_clean, CommentMax)
                             ELSE << >>] >>
        ELSE << >>)))))

\* the records appended over a list of candidates, in order
RECURSIVE Strategy1Over(_)
Strategy1Over(cands) ==
    IF cands = << >> THEN << >>
    ELSE Strategy1Record(cands[1]) \o Strategy1Over(Tail(cands))

parse_strategy_1(text) == Strategy1Over(Strategy1Candidates(text))

-----------------------------------------------------------------------------
(* _parse_strategy_2                                                       *)

LoosePlateEnd(s, i) == PlateMatchEnd(s, i, 2, 3)

\* author and comment as strategies 2 and 3 split them
WordsAuthor(comment_text) ==
    Bind(SplitWords(comment_text), LAMBDA words :
        IF words # << >> THEN words[1] ELSE Anonymous)
WordsComment(comment_text) ==
    Bind(SplitWords(comment_text), LAMBDA words :
        IF Len(words) > 1 THEN Join(Tail(words)) ELSE << >>)

\* The candidate of strategy 2 for the plate matched at positions i..pe:
\* << [plate, date_str, trail] >>, << >> when no date follows within the window
Strategy2Candidate(s, i, pe) ==
    \* start_pos, the 0-based plate_match.end(), is pe
    Bind(Slice(s, pe, pe + DateWindow), LAMBDA text_after :
    Bind(SearchDate(text_after, 1), LAMBDA dm :
        IF dm > 0
        THEN \* date_end is the 0-based date_match.end(), nl the 1-based
             \* position of the newline
             Bind(DateMatchEnd(text_after, dm), LAMBDA date_end :
             Bind(pe + date_end, LAMBDA comment_start :
             Bind(LineEnd(s, comment_start + 1), LAMBDA nl :
             Bind(IF nl <= Len(s) /\ nl <= comment_start + CommentWindow
                  THEN nl - 1 ELSE comment_start + CommentWindow, LAMBDA comment_end :
                 << [plate |-> Strip(SubSeq(s, i, pe)),
                     date_str |-> SubSeq(text_after, dm, date_end),
                     trail |-> Slice(s, comment_start, comment_end)] >>))))
        ELSE << >>))

\* re.finditer from position i on
RECURSIVE Strategy2From(_, _)
Strategy2From(s, i) ==
    Bind(SearchPlate(s, i), LAMBDA k :
        IF k = 0 THEN << >>
        ELSE Bind(LoosePlateEnd(s, k), LAMBDA pe :
                 Strategy2Candidate(s, k, pe) \o Strategy2From(s, pe + 1)))

Strategy2Candidates(text) == Strategy2From(text, 1)

\* Faulty variant of WordsRecord: the record is appended without the
\* "if parsed_date" test
WordsRecordUnchecked(c) ==
    Bind(Strip(c.trail), LAMBDA comment_text :
        << [plate |-> c.plate, date |-> parse_datetime(c.date_str),
            author |-> Take(WordsAuthor(comment_text), AuthorMax),
            comment |-> Take(WordsComment(comment_text), CommentMax)] >>)

\* the record strategies 2 and 3 append for a candidate, << >> when the date
\* does not parse
WordsRecord(c) ==
    Bind(Strip(c.trail), LAMBDA comment_text :
    Bind(parse_datetime(c.date_str), LAMBDA parsed_date :
        IF parsed_date # None
        THEN << [plate |-> c.plate, date |-> parsed_date,
                 author |-> Take(WordsAuthor(comment_text), AuthorMax),
                 comment |-> Take(WordsComment(comment_text), CommentMax)] >>
        ELSE << >>))

RECURSIVE WordsOver(_)
WordsOver(cands) ==
    IF cands = << >> THEN << >>
    ELSE WordsRecord(cands[1]) \o WordsOver(Tail(cands))

parse_strategy_2(text) == WordsOver(Strategy2Candidates(text))

-----------------------------------------------------------------------------
(* _parse_strategy_3                                                       *)

\* position of the first markup token of s at or after position i, 0 if none
NextTag(s, i) ==
    LET hits == {k \in i..Len(s) : s[k] \in {TAG_P, TAG_P_END}}
    IN  IF hits = {} THEN 0 ELSE Least(hits)

\* BeautifulSoup(text_content, 'html.parser') seen through find_all(['div',
\* 'p', 'span'], string=...): the .string of each element that has one (an
\* element holding exactly one text node), in document order from position i
RECURSIVE ElementStrings(_, _)
ElementStrings(s, i) ==
    Bind(NextTag(s, i), LAMBDA t :
        IF t = 0 THEN << >>
        ELSE IF s[t] # TAG_P THEN ElementStrings(s, t + 1)
        ELSE Bind(NextTag(s, t + 1), LAMBDA j :
             Bind(IF j = 0 THEN Len(s) + 1 ELSE j, LAMBDA e :
             Bind(SubSeq(s, t + 1, e - 1), LAMBDA str :
                 IF (j = 0 \/ s[j] = TAG_P_END) /\ str # << >>
                 THEN <<str>> \o ElementStrings(s, e)
                 ELSE ElementStrings(s, e)))))

\* re.compile(r'[A-Z]{2,3}\s*\d').search(str)
HasPlateHint(str) ==
    \E i \in 1..Len(str) :
        LET r == Run(str, i, UpperLetters)
            w == Run(str, i + r, Whitespace)
        IN  r \in {2, 3} /\ i + r + w <= Len(str) /\ str[i + r + w] \in Digits

\* the candidate of strategy 3 for one element, << >> if it has no plate or no date
Strategy3Candidate(element) ==
    Bind(Strip(element), LAMBDA text :
    Bind(SearchPlate(text, 1), LAMBDA pm :
    Bind(SearchDate(text, 1), LAMBDA dm :
        IF pm > 0 /\ dm > 0
        THEN Bind(DateMatchEnd(text, dm), LAMBDA de :
                 << [plate |-> SubSeq(text, pm, PlateMatchEnd(text, pm, 2, 3)),
                     date_str |-> SubSeq(text, dm, de),
                     trail |-> Drop(text, de)] >>)
        ELSE << >>)))

RECURSIVE Strategy3Over(_)
Strategy3Over(elements) ==
    IF elements = << >> THEN << >>
    ELSE Strategy3Candidate(elements[1]) \o Strategy3Over(Tail(elements))

Strategy3Candidates(text) ==
    LET potential_comments == SelectSeq(ElementStrings(text, 1), HasPlateHint)
    IN  Strategy3Over(Take(potential_comments, FragmentCap))

parse_strategy_3(text) == WordsOver(Strategy3Candidates(text))

-----------------------------------------------------------------------------
(* extract_comments_from_page                                              *)

\* soup.get_text(): the page's markup is dropped, escaped markup is unescaped
get_text(page) ==
    LET IsText(c) == c \notin {TAG_DIV, TAG_DIV_END}
    IN  Bind(SelectSeq(page, IsText), LAMBDA kept :
            [k \in 1..Len(kept) |-> IF kept[k] = ESC_P THEN TAG_P
                                    ELSE IF kept[k] = ESC_P_END THEN TAG_P_END
                                    ELSE kept[k]])

\* strategies[i - 1](text_content)
Strategy(i, text) ==
    CASE i = 1 -> parse_strategy_1(text)
      [] i = 2 -> parse_strategy_2(text)
      [] i = 3 -> parse_strategy_3(text)

\* Faulty variant of StrategyLoop: the loop has no break, so a later strategy
\* that does not raise overwrites the records already found
RECURSIVE StrategyLoopNoBreak(_, _, _, _)
StrategyLoopNoBreak(text, raises, i, found) ==
    IF i > 3 THEN found
    ELSE IF i \in raises THEN StrategyLoopNoBreak(text, raises, i + 1, found)
    ELSE StrategyLoopNoBreak(text, raises, i + 1, Strategy(i, text))

\* The loop over strategies from the i-th on, comments being the list assigned
\* so far; raises is the set of strategies that raise an exception.
RECURSIVE StrategyLoop(_, _, _, _)
StrategyLoop(text, raises, i, found) ==
    IF i > 3 THEN found
    ELSE IF i \in raises THEN StrategyLoop(text, raises, i + 1, found)
    ELSE Bind(Strategy(i, text), LAMBDA c :
             IF c # << >> THEN c ELSE StrategyLoop(text, raises, i + 1, c))

\* the strategy loop on an already extracted text
select_comments(text, raises) == StrategyLoop(text, raises, 1, << >>)

extract_comments_from_page(page, raises) == select_comments(get_text(page), raises)

-----------------------------------------------------------------------------
(* Inputs                                                                  *)

\* bounds of the model
MaxPage == 3          \* start_page and end_page range over 1..MaxPage
ScenarioPages == 10   \* longest run of the fetch-failure scenario
MaxLines == 2         \* lines of a text given to the strategies
MaxPlateLen == 4      \* length of a plate given to extract_region_code

DateOk       == <<"2", "0", "2", "4", "-", "0", "3", "-", "0", "1", " ",
                  "1", "0", ":", "0", "0", ":", "0", "0">>
DateLeap     == <<"2", "0", "2", "4", "-", "0", "2", "-", "2", "9", " ",
                  "2", "3", ":", "5", "9", ":", "5", "9">>
DateBadDay   == <<"2", "0", "2", "4", "-", "0", "2", "-", "3", "0", " ",
                  "1", "0", ":", "0", "0", ":", "0", "0">>
DateBadMonth == <<"2", "0", "2", "4", "-", "1", "3", "-", "0", "1", " ",
                  "1", "0", ":", "0", "0", ":", "0", "0">>

\* the pages fetch_page can return (markup included)
PageEmpty == << >>
PageOne ==
    <<TAG_DIV, "W", "A", " ", "1", "2", "3", "4", "5", " ", MIDDLE_DOT, " ">>
    \o DateOk
    \o <<" ", "J", "o", "h", "n", "D", "o", "e", " ", "t", "e", "r", "r", "i",
         "b", "l", "e", " ", "m", "e", "r", "g", "e", TAG_DIV_END>>
PageTwo ==
    <<TAG_DIV, "W", "A", " ", "1", " ", MIDDLE_DOT, " ">> \o DateOk
    \o <<" ", "B", "o", "b", TAG_DIV_END, "\n", TAG_DIV, "K", "R", "2", " ", BULLET, " ">>
    \o DateLeap \o <<" ", "A", "l", " ", "h", "i", TAG_DIV_END>>
PageLoose ==
    <<"K", "R", " ", "2", " ">> \o DateBadDay \o <<" ", "x", "\n", "W", "A", " ", "1", " ">>
    \o DateOk \o <<" ", "B", "o", "b", " ", "h", "i">>
Pages == {PageEmpty, PageOne, PageTwo, PageLoose}

\* the texts given to the strategies: a first line built from a plate, a
\* separator, a date and a trailing text, bare or inside an element, or with
\* the date first; then up to MaxLines - 1 further lines
LinePlates == { <<"W", "A", " ", "1">>, <<"W", "1">>, <<"A", "B", "C", "D", "1">>,
                <<"K", "R", "1", "2", "3", "4", "5", "6">> }
LineSeps   == { <<" ", MIDDLE_DOT, " ">>, <<" ">> }
LineDates  == { DateOk, DateBadDay }
LineTrails == { << >>, <<" ">>, <<" ", "B", "o", "b">>,
                <<" ", "B", "o", "b", " ", "h", "i">>,
                <<" ", "B", "o", "b", " ", " ", "h", "i", " ", "y", "o">>,
                <<"\t", "B", "o", "b", "\t", "h", "i">> }
BareLines  == { p \o sep \o d \o tr :
                  p \in LinePlates, sep \in LineSeps, d \in LineDates, tr \in LineTrails }
DateFirstLines == { d \o <<" ", "W", "A", " ", "1">> \o tr :
                      d \in {DateOk, DateBadMonth}, tr \in {<< >>, <<" ", "B", "o", "b">>} }
FirstLines == BareLines \cup { <<TAG_P>> \o l \o <<TAG_P_END>> : l \in BareLines \cup DateFirstLines }
MoreLines  == { <<"K", "R", "2", " ", BULLET, " ">> \o DateLeap \o <<" ", "A", "l", " ", "h", "i">> }

RECURSIVE TextsOf(_)
TextsOf(n) ==
    IF n = 1 THEN FirstLines
    ELSE LET shorter == TextsOf(n - 1)
         IN  shorter \cup { t \o <<"\n">> \o l : t \in shorter, l \in MoreLines }
Texts == {<< >>} \cup TextsOf(MaxLines)

\* the plates given to extract_region_code
PlateChars == {"u", "N", "K", "W", " ", "1", "-"}
PlateInputs == UNION { [1..n -> PlateChars] : n \in 0..MaxPlateLen }

-----------------------------------------------------------------------------
(* run_parser, fetch_page, save_comments_to_db and main                    *)

ProgressEvery == 5
WarmUpPages == 5

\* the values of the variables that belong to the other specifications
CrawlIdle ==
    /\ plate_number = << >> /\ region_code = << >>
    /\ text_content = << >> /\ raising = {} /\ extracted = << >>

\* the crawl state when run_parser is about to enter its loop
CrawlStart(starts, ends) ==
    /\ start_page \in starts
    /\ end_page \in ends
    /\ page_num = start_page - 1
    /\ page_content = None
    /\ comments = << >>
    /\ idx = 0
    /\ saved_count = 0
    /\ processed_pages = 0
    /\ total_records = 0
    /\ error_count = 0
    /\ reports = 0
    /\ exit_code = -1
    /\ log = "Starting parsing"
    /\ failed_inserts = {}
    /\ errors_before_save = 0
    /\ fetch_failed = {}
    /\ processed = {}
    /\ interrupted = 0

\* main() has parsed the command line and run_parser is about to enter its loop
InitRun(starts, ends) ==
    /\ pc = "loop"
    /\ CrawlStart(starts, ends)
    /\ CrawlIdle

Init == InitRun(1..MaxPage, 1..MaxPage)

pure_vars == <<plate_number, region_code, text_content, raising, extracted>>
batch_vars == <<comments, idx, saved_count, failed_inserts, errors_before_save>>
counters == <<processed_pages, total_records, error_count, reports>>
ghosts == <<fetch_failed, processed, interrupted>>

\* for page_num in range(start_page, end_page + 1)
LoopNext ==
    /\ pc = "loop"
    /\ IF page_num < end_page
       THEN page_num' = page_num + 1 /\ pc' = "fetch"
       ELSE page_num' = page_num /\ pc' = "summary"
    /\ UNCHANGED <<start_page, end_page, page_content, batch_vars, counters,
                   exit_code, log, ghosts, pure_vars>>

\* fetch_page returns response.text
FetchOk(page) ==
    /\ pc = "fetch"
    /\ page_content' = page
    /\ log' = "Fetched page"
    /\ pc' = "extract"
    /\ UNCHANGED <<start_page, end_page, page_num, batch_vars, counters,
                   exit_code, ghosts, pure_vars>>

\* Faulty variant of FetchFail: the page whose fetch failed is counted as
\* processed
FetchFailCounted ==
    /\ pc = "fetch"
    /\ error_count' = error_count + 1
    /\ processed_pages' = processed_pages + 1
    /\ page_content' = None
    /\ log' = "Error fetching page"
    /\ fetch_failed' = fetch_failed \cup {page_num}
    /\ pc' = "loop"
    /\ UNCHANGED <<start_page, end_page, page_num, batch_vars,
                   total_records, reports, exit_code, processed, interrupted,
                   pure_vars>>

\* session.get or raise_for_status raises RequestException: fetch_page counts
\* the error and returns None, and run_parser continues with the next page
FetchFail ==
    /\ pc = "fetch"
    /\ error_count' = error_count + 1
    /\ page_content' = None
    /\ log' = "Error fetching page"
    /\ fetch_failed' = fetch_failed \cup {page_num}
    /\ pc' = "loop"
    /\ UNCHANGED <<start_page, end_page, page_num, batch_vars, processed_pages,
                   total_records, reports, exit_code, processed, interrupted,
                   pure_vars>>

\* extract_comments_from_page returns; raises is the set of strategies that raise
ExtractOk(raises) ==
    /\ pc = "extract"
    /\ comments' = extract_comments_from_page(page_content, raises)
    /\ log' = "Strategy found comments"
    /\ pc' = "save"
    /\ UNCHANGED <<start_page, end_page, page_num, page_content, idx, saved_count,
                   failed_inserts, errors_before_save, counters, exit_code,
                   ghosts, pure_vars>>

\* an exception raised in the body of the page's try block is counted and the
\* loop continues
ExceptException ==
    /\ error_count' = error_count + 1
    /\ log' = "Error processing page"
    /\ pc' = "loop"

\* extract_comments_from_page raises outside the per-strategy try (the
\* BeautifulSoup constructor, the debug file)
ExtractRaise ==
    /\ pc = "extract"
    /\ ExceptException
    /\ UNCHANGED <<start_page, end_page, page_num, page_content, batch_vars,
                   processed_pages, total_records, reports, exit_code, ghosts,
                   pure_vars>>

\* save_comments_to_db: if not comments: return 0
SaveNothing ==
    /\ pc = "save"
    /\ comments = << >>
    /\ saved_count' = 0
    /\ idx' = 0
    /\ failed_inserts' = {}
    /\ errors_before_save' = error_count
    /\ pc' = "update"
    /\ UNCHANGED <<start_page, end_page, page_num, page_content, comments,
                   counters, exit_code, log, ghosts, pure_vars>>

\* connect_db and conn.cursor() succeed
SaveConnect ==
    /\ pc = "save"
    /\ comments # << >>
    /\ saved_count' = 0
    /\ idx' = 0
    /\ failed_inserts' = {}
    /\ errors_before_save' = error_count
    /\ pc' = "insert"
    /\ UNCHANGED <<start_page, end_page, page_num, page_content, comments,
                   counters, exit_code, log, ghosts, pure_vars>>

\* Faulty variant of SaveConnectFail: the exception is not handled in the
\* loop, leaves run_parser and main exits with status 1
SaveConnectFailAborts ==
    /\ pc = "save"
    /\ comments # << >>
    /\ log' = "Critical parser error"
    /\ exit_code' = 1
    /\ pc' = "done"
    /\ UNCHANGED <<start_page, end_page, page_num, page_content, batch_vars,
                   counters, ghosts, pure_vars>>

\* connect_db (or conn.cursor()) raises: the exception leaves
\* save_comments_to_db and is handled by run_parser
SaveConnectFail ==
    /\ pc = "save"
    /\ comments # << >>
    /\ ExceptException
    /\ UNCHANGED <<start_page, end_page, page_num, page_content, batch_vars,
                   processed_pages, total_records, reports, exit_code, ghosts,
                   pure_vars>>

\* one iteration of "for comment in comments": the INSERT succeeds (autocommit)
InsertOk ==
    /\ pc = "insert"
    /\ idx < Len(comments)
    /\ idx' = idx + 1
    /\ plate_number' = comments[idx + 1].plate
    /\ region_code' = extract_region_code(comments[idx + 1].plate)
    /\ reports' = reports + 1
    /\ saved_count' = saved_count + 1
    /\ UNCHANGED <<pc, start_page, end_page, page_num, page_content, comments,
                   failed_inserts, errors_before_save, processed_pages,
                   total_records, error_count, exit_code, log, ghosts,
                   text_content, raising, extracted>>

\* Faulty variant of InsertFail: the try block encloses the whole loop, so
\* the first INSERT that raises ends the batch
InsertFailEndsBatch ==
    /\ pc = "insert"
    /\ idx < Len(comments)
    /\ idx' = Len(comments)
    /\ plate_number' = comments[idx + 1].plate
    /\ region_code' = extract_region_code(comments[idx + 1].plate)
    /\ error_count' = error_count + 1
    /\ failed_inserts' = failed_inserts \cup {idx + 1}
    /\ log' = "Error saving comment"
    /\ UNCHANGED <<pc, start_page, end_page, page_num, page_content, comments,
                   saved_count, errors_before_save, processed_pages, total_records,
                   reports, exit_code, ghosts, text_content, raising, extracted>>

\* one iteration of "for comment in comments": cursor.execute raises
InsertFail ==
    /\ pc = "insert"
    /\ idx < Len(comments)
    /\ idx' = idx + 1
    /\ plate_number' = comments[idx + 1].plate
    /\ region_code' = extract_region_code(comments[idx + 1].plate)
    /\ error_count' = error_count + 1
    /\ failed_inserts' = failed_inserts \cup {idx + 1}
    /\ log' = "Error saving comment"
    /\ UNCHANGED <<pc, start_page, end_page, page_num, page_content, comments,
                   saved_count, errors_before_save, processed_pages, total_records,
                   reports, exit_code, ghosts, text_content, raising, extracted>>

\* the loop over comments is over: conn.close() and return saved_count
SaveReturn ==
    /\ pc = "insert"
    /\ idx = Len(comments)
    /\ pc' = "update"
    /\ UNCHANGED <<start_page, end_page, page_num, page_content, batch_vars,
                   counters, exit_code, log, ghosts, pure_vars>>

\* the counters are updated; the page line, print_progress and the warning log
Update ==
    /\ pc = "update"
    /\ processed_pages' = processed_pages + 1
    /\ total_records' = total_records + saved_count
    /\ log' = IF saved_count = 0 /\ page_num > WarmUpPages THEN "Page contains no data"
              ELSE IF processed_pages' % ProgressEvery = 0 \/ processed_pages' <= ProgressEvery
                   THEN "Processed"
                   ELSE "Page: found comments"
    /\ processed' = processed \cup {page_num}
    /\ pc' = "loop"
    /\ UNCHANGED <<start_page, end_page, page_num, page_content, batch_vars,
                   error_count, reports, exit_code, fetch_failed, interrupted,
                   pure_vars>>

\* KeyboardInterrupt raised anywhere in the body of the page's try block
\* (in save_comments_to_db the finally clause closes the connection): break
Interrupt ==
    /\ pc \in {"fetch", "extract", "save", "insert", "update"}
    /\ log' = "Interrupted by user"
    /\ interrupted' = page_num
    /\ pc' = "summary"
    /\ UNCHANGED <<start_page, end_page, page_num, page_content, batch_vars,
                   counters, exit_code, fetch_failed, processed, pure_vars>>

\* the summary is logged and run_parser returns: main ends with status 0
SummaryOk ==
    /\ pc = "summary"
    /\ processed_pages # 0
    /\ log' = "Average per page"
    /\ exit_code' = 0
    /\ pc' = "done"
    /\ UNCHANGED <<start_page, end_page, page_num, page_content, batch_vars,
                   counters, ghosts, pure_vars>>

\* elapsed_time/self.processed_pages raises ZeroDivisionError after the first
\* four summary lines; main logs it and calls sys.exit(1)
SummaryZeroDivision ==
    /\ pc = "summary"
    /\ processed_pages = 0
    /\ log' = "Critical parser error"
    /\ exit_code' = 1
    /\ pc' = "done"
    /\ UNCHANGED <<start_page, end_page, page_num, page_content, batch_vars,
                   counters, ghosts, pure_vars>>

Next ==
    \/ LoopNext
    \/ \E page \in Pages : FetchOk(page)
    \/ FetchFail
    \/ \E raises \in SUBSET {1, 2, 3} : ExtractOk(raises)
    \/ ExtractRaise
    \/ SaveNothing
    \/ SaveConnect
    \/ SaveConnectFail
    \/ InsertOk
    \/ InsertFail
    \/ SaveReturn
    \/ Update
    \/ Interrupt
    \/ SummaryOk
    \/ SummaryZeroDivision

Spec == Init /\ [][Next]_vars

-----------------------------------------------------------------------------
(* The fetch-failure scenario: a run from page 1 in which a page either     *)
(* fails to fetch or yields one valid record that is saved                  *)

InitScenario == InitRun({1}, 1..ScenarioPages)

NextScenario ==
    \/ LoopNext
    \/ FetchOk(PageOne)
    \/ FetchFail
    \/ ExtractOk({})
    \/ SaveConnect
    \/ InsertOk
    \/ SaveReturn
    \/ Update
    \/ SummaryOk
    \/ SummaryZeroDivision

SpecScenario == InitScenario /\ [][NextScenario]_vars

-----------------------------------------------------------------------------
(* extract_region_code and the strategy loop applied to bounded inputs      *)

crawl_vars == <<start_page, end_page, page_num, page_content, batch_vars,
                counters, exit_code, log, ghosts>>

InitRegion ==
    /\ pc = "region"
    /\ CrawlStart({1}, {1})
    /\ plate_number \in PlateInputs
    /\ region_code = << >>
    /\ text_content = << >> /\ raising = {} /\ extracted = << >>

\* region_code = self.extract_region_code(comment['plate'])
DeriveRegion ==
    /\ pc = "region"
    /\ region_code' = extract_region_code(plate_number)
    /\ pc' = "derived"
    /\ UNCHANGED <<crawl_vars, plate_number, text_content, raising, extracted>>

NextRegion == DeriveRegion

SpecRegion == InitRegion /\ [][NextRegion]_vars

InitExtract ==
    /\ pc = "parse"
    /\ CrawlStart({1}, {1})
    /\ plate_number = << >> /\ region_code = << >>
    /\ text_content \in Texts
    /\ raising \in SUBSET {1, 2, 3}
    /\ extracted = << >>

\* the loop over strategies of extract_comments_from_page on text_content
ParseText ==
    /\ pc = "parse"
    /\ extracted' = select_comments(text_content, raising)
    /\ pc' = "parsed"
    /\ UNCHANGED <<crawl_vars, plate_number, region_code, text_content, raising>>

NextExtract == ParseText

SpecExtract == InitExtract /\ [][NextExtract]_vars

-----------------------------------------------------------------------------
(* Properties of the crawl loop                                             *)

\* a step in which the page being processed fails: its fetch, its extraction
\* or the connection of the persister
PageFailure == FetchFail \/ ExtractRaise \/ SaveConnectFail

\* C1: a page whose fetch fails, whose extraction raises or whose persister
\* fails to connect adds exactly 1 to error_count and nothing to the saved
\* records, is never counted as processed, does not end the run, and the loop
\* then goes on to fetch the next page when there is one.
C1_PageFailureIsolated ==
    /\ [][PageFailure =>
            /\ error_count' = error_count + 1
            /\ total_records' = total_records
            /\ processed_pages' = processed_pages
            /\ pc' = "loop"
            /\ exit_code' = -1]_vars
    /\ [][(pc = "loop" /\ page_num < end_page) =>
            (pc' = "fetch" /\ page_num' = page_num + 1)]_vars
    /\ [](fetch_failed \cap processed = {})

\* the page before the one being fetched failed to fetch, and it was counted
C1_Witness ==
    /\ pc = "fetch"
    /\ (page_num - 1) \in fetch_failed
    /\ error_count = Cardinality(fetch_failed)
    /\ log = "Error fetching page"
    /\ total_records = 0

\* C2 (as the specification states it): after the 10-page run in which pages
\* 3 and 7 fail to fetch, pages_processed = 10, records_saved = 8 and
\* error_count = 2, and the run has completed without raising.
C2_ScenarioAsStated ==
    (pc = "done" /\ end_page = 10 /\ fetch_failed = {3, 7}) =>
        /\ processed_pages = 10
        /\ total_records = 8
        /\ error_count = 2
        /\ exit_code = 0

\* C2 (amended): when the loop of a run over pages 1..N has ended, with F the
\* pages that failed to fetch and one record saved for every other page,
\* pages_processed = N - |F|, records_saved = N - |F| and error_count = |F|;
\* the 10-page run with F = {3, 7} ends with 8, 8 and 2 and completes without
\* raising.
C2_ScenarioCounters ==
    /\ pc \in {"summary", "done"} =>
        /\ processed_pages = end_page - Cardinality(fetch_failed)
        /\ total_records = end_page - Cardinality(fetch_failed)
        /\ error_count = Cardinality(fetch_failed)
        /\ reports = total_records
    /\ (pc = "done" /\ end_page = 10 /\ fetch_failed = {3, 7}) =>
        /\ processed_pages = 8
        /\ total_records = 8
        /\ error_count = 2
        /\ exit_code = 0

\* the 10-page run in which pages 3 and 7 failed to fetch has ended
C2_Witness ==
    /\ pc = "done"
    /\ end_page = 10
    /\ fetch_failed = {3, 7}
    /\ processed = (1..10) \ {3, 7}

\* C3: when the user interrupts the run while page p is being processed, page
\* p is still completed (counted as processed) before the loop exits, and the
\* run ends with the full summary and not with an error.
C3_InterruptFinishesPage ==
    (interrupted # 0 /\ pc = "done") =>
        /\ interrupted \in processed
        /\ exit_code = 0
        /\ log = "Average per page"

\* C4: a run that ends with no page processed still reports every total, the
\* average per page included, and the process exits with code 0.
C4_SummaryGuarded ==
    (pc = "done" /\ processed_pages = 0) =>
        (exit_code = 0 /\ log = "Average per page")

\* C5: when save_comments_to_db has returned for a batch of M records of which
\* the inserts of the set K failed, every record was attempted, in order, the
\* saved count is M - |K| and error_count has grown by |K|; the page is then
\* counted as processed and M - |K| is added to the saved records.
C5_InsertFailuresIsolated ==
    /\ [](pc = "update" =>
            /\ idx = Len(comments)
            /\ saved_count = Len(comments) - Cardinality(failed_inserts)
            /\ error_count = errors_before_save + Cardinality(failed_inserts))
    /\ [][(pc = "insert" /\ idx' # idx) => idx' = idx + 1]_vars
    /\ [][(pc = "insert" /\ pc' # "insert") =>
            (pc' = "update" \/ interrupted' = page_num)]_vars
    /\ [][(pc = "update" /\ pc' = "loop") =>
            /\ processed_pages' = processed_pages + 1
            /\ total_records' = total_records + Len(comments)
                                   - Cardinality(failed_inserts)
            /\ processed' = processed \cup {page_num}]_vars

\* a batch of two records whose first insert failed and whose second was
\* stored has been counted
C5_Witness ==
    /\ pc = "loop"
    /\ page_num \in processed
    /\ Len(comments) = 2
    /\ failed_inserts = {1}
    /\ saved_count = 1
    /\ total_records = 1
    /\ error_count = 1

\* C10: at the end of every run the saved-record counter equals the number of
\* rows the persister stored.
C10_SavedCounterConserved ==
    pc = "done" => total_records = reports

-----------------------------------------------------------------------------
(* Properties of the extractor and of the normalizer                        *)

\* candidates[i - 1](text): the candidates strategy i builds its records from
CandidatesOf(i, text) ==
    CASE i = 1 -> Strategy1Candidates(text)
      [] i = 2 -> Strategy2Candidates(text)
      [] i = 3 -> Strategy3Candidates(text)

\* the date string of candidate c parses
DateParses(c) == parse_datetime(c.date_str) # None

\* strategy i is the one whose records are in extracted
Produced(i) ==
    /\ i \notin raising
    /\ extracted # << >>
    /\ Strategy(i, text_content) = extracted
    /\ \A j \in 1..(i - 1) : j \in raising \/ Strategy(j, text_content) = << >>

\* C6: the result of the strategy loop is the output of the first strategy, in
\* the order 1, 2, 3, that does not raise and returns at least one record; it
\* is empty when there is none.
C6_FirstYieldingStrategy ==
    pc = "parsed" =>
        Bind({i \in 1..3 : i \notin raising /\ Strategy(i, text_content) # << >>},
             LAMBDA yielding :
                 IF yielding = {} THEN extracted = << >>
                 ELSE extracted = Strategy(Least(yielding), text_content))

\* strategy 1 raised, strategy 2 produced the result, and strategy 3 would have
\* returned other records
C6_Witness ==
    /\ pc = "parsed"
    /\ 1 \in raising
    /\ Strategy(1, text_content) # << >>
    /\ Produced(2)
    /\ 3 \notin raising
    /\ Strategy(3, text_content) # << >>
    /\ Strategy(3, text_content) # extracted

\* the records of strategy i on text are, in order, its candidates whose date
\* string parses, each with the parsed date
KeepsParsedOnly(i, text) ==
    Bind(SelectSeq(CandidatesOf(i, text), DateParses), LAMBDA kept :
    Bind(Strategy(i, text), LAMBDA recs :
        /\ Len(recs) = Len(kept)
        /\ \A k \in 1..Len(recs) :
               /\ recs[k].plate = kept[k].plate
               /\ recs[k].date = parse_datetime(kept[k].date_str)))

\* C7: every record of the result has a timestamp, and each strategy returns
\* one record per candidate whose date string parses and none for the others.
C7_TimestampPresent ==
    pc = "parsed" =>
        /\ \A k \in 1..Len(extracted) : extracted[k].date # None
        /\ \A i \in 1..3 : KeepsParsedOnly(i, text_content)

\* the strategy that produced the result dropped a candidate and kept another
C7_Witness ==
    /\ pc = "parsed"
    /\ \E i \in 1..3 :
           /\ Produced(i)
           /\ Len(extracted) < Len(CandidatesOf(i, text_content))

\* record r splits trail as claimed: author is the first word or "Anonymous",
\* comment is what follows the first word, empty when there is no second word
SplitAsClaimed(trail, r) ==
    Bind(SplitWords(trail), LAMBDA words :
        /\ r.author = (IF words = << >> THEN Anonymous ELSE words[1])
        /\ Len(words) <= 1 => r.comment = << >>
        /\ Len(words) > 1 => SplitWords(r.comment) = Tail(words))

\* C8: in every record of the result, whichever strategy produced it, author
\* is the first whitespace-delimited word of the text after the timestamp
\* ("Anonymous" when there is no word) and comment is the remainder (empty
\* when there is exactly one word).
C8_AuthorCommentSplit ==
    pc = "parsed" =>
        \A i \in 1..3 :
            Produced(i) =>
                Bind(SelectSeq(CandidatesOf(i, text_content), DateParses), LAMBDA kept :
                    \A k \in 1..Len(extracted) :
                        SplitAsClaimed(kept[k].trail, extracted[k]))

\* C9 (as the specification states it): the result is "UNK" exactly when the
\* normalized token has no leading letter.
C9_UnkIffNoLeadingLetter ==
    pc = "derived" =>
        Bind(ReSubWs(Upper(Strip(plate_number))), LAMBDA token :
            (region_code = UNK) <=> (Run(token, 1, UpperLetters) = 0))

\* C9 (amended): for every input the result is that of the first of the three
\* patterns that matches the normalized token, else its leading run of letters
\* cut to 3; it is "UNK" whenever the token has no leading letter, and
\* otherwise the first min(L, 3) letters of the token, L being the length of
\* its leading run of letters (so "UNK" also for a token that starts with UNK).
C9_RegionCode ==
    pc = "derived" =>
        Bind(ReSubWs(Upper(Strip(plate_number))), LAMBDA token :
        Bind(Run(token, 1, UpperLetters), LAMBDA L :
            /\ Pattern1(token) > 0 => region_code = Take(token, Pattern1(token))
            /\ (Pattern1(token) = 0 /\ Pattern2(token) > 0) =>
                   region_code = Take(token, Pattern2(token))
            /\ (Pattern1(token) = 0 /\ Pattern2(token) = 0 /\ Pattern3(token) > 0) =>
                   region_code = Take(token, Pattern3(token))
            /\ L = 0 => region_code = UNK
            /\ L > 0 => region_code = Take(token, Min(L, 3))
            /\ region_code = UNK \/ (Len(region_code) \in 1..3
                                     /\ region_code = Take(token, Len(region_code)))))

\* a token whose leading letters are U, N, K gave those letters
C9_Witness ==
    /\ pc = "derived"
    /\ plate_number = <<"u", "N", "K", "1">>
    /\ region_code = UNK

====
